---------------------------- MODULE Spec2Model ----------------------------
(***************************************************************************)
(* The newlib syscall stubs of src/bare_metal_syscalls.c as a state        *)
(* machine.  One caller (newlib, single-threaded) invokes one stub at a    *)
(* time; every action below is one complete call of one stub.              *)
(*                                                                         *)
(* Addresses are machine words: a pointer is a number in 0..AddrSpace-1    *)
(* and pointer arithmetic is arithmetic modulo AddrSpace (RV64: 2^64; an   *)
(* int increment is sign-extended and added, pointers compare unsigned).   *)
(* NULL is address 0 and the pointer cast of -1 is the all-ones word.      *)
(***************************************************************************)
EXTENDS Integers, Sequences, FiniteSets, TLC

(***************************************************************************)
(* Bounds of the model.                                                    *)
(***************************************************************************)
\* size of the (scaled) address space; pointers wrap modulo this
AddrSpace == 16
\* |incr| of an _sbrk request (scaled int range), MaxIncr < AddrSpace - _heap_end
MaxIncr == 3
\* file descriptors passed by the caller are 0..MaxFd (0,1,2 are the streams)
MaxFd == 3
\* longest buffer passed to _write / largest len passed to _read
MaxLen == 2
\* most bytes the UART receiver holds pending
MaxRx == 1

(***************************************************************************)
(* Link-time symbols and C constants.                                      *)
(***************************************************************************)
\* static char* heap_ptr = NULL
NULL == 0
\* extern char _end: first address above static data (heap start)
_end == 4
\* extern char _heap_end: one past the usable heap
_heap_end == 9
\* -1 cast to a pointer, the failure value of _sbrk
SBRK_FAILED == (-1) % AddrSpace

Incrs == (0 - MaxIncr)..MaxIncr
Files == 0..MaxFd
Bytes == {0, 1}
Bufs == UNION {[1..n -> Bytes] : n \in 0..MaxLen}
Names == {"a.png", "b.png"}
\* no out-parameter written by the call
NoOut == [none |-> TRUE]

VARIABLES
    heap_ptr,   \* static char* heap_ptr
    errno,      \* extern int errno ("0" after reset)
    uart_tx,    \* bytes put on the UART transmitter so far
    uart_rx,    \* bytes received by the UART and not yet read
    halted,     \* the core sits in _exit's wfi loop
    op,         \* the stub called last
    args,       \* its arguments
    ret,        \* its return value
    out,        \* what it stored through its pointer arguments
    granted,    \* history: sum of the increments of all _sbrk calls so far while
                \* every one was >= 0 and the sum stayed <= _heap_end - _end; else -1
    regions,    \* history: base and length of every region granted, in call order
                \* (kept by the specification of non-negative requests only)
    ctx         \* the execution contexts inside _sbrk, statement by statement
                \* (used by the specification of interleaved calls only)

vars == <<heap_ptr, errno, uart_tx, uart_rx, halted, op, args, ret, out,
          granted, regions, ctx>>

\* what the stubs other than _sbrk never touch of the arena and of the hardware
hw == <<uart_tx, uart_rx>>

\* no context is inside _sbrk
NoCtx == [none |-> TRUE]

\* the state at reset
Reset ==
    /\ heap_ptr = NULL
    /\ errno = "0"
    /\ uart_tx = <<>>
    /\ uart_rx = <<>>
    /\ halted = FALSE
    /\ op = "reset"
    /\ args = NoOut
    /\ ret = 0
    /\ out = NoOut
    /\ granted = 0
    /\ regions = <<>>

Init ==
    /\ Reset
    /\ ctx = NoCtx

(***************************************************************************)
(* _sbrk                                                                   *)
(***************************************************************************)
\* mutant: the test for NULL is missing, every call starts from &_end
sbrk_init_always(hp) == _end

\* if (heap_ptr == NULL) heap_ptr = &_end;
sbrk_init(hp) == IF hp = NULL THEN _end ELSE hp

\* mutant: sign slip, the increment is subtracted
sbrk_candidate_sub(hp, incr) == (hp - incr) % AddrSpace

\* heap_ptr + incr, pointer arithmetic: wraps at the word size
sbrk_candidate(hp, incr) == (hp + incr) % AddrSpace

\* mutant: the bound check forgets the increment
sbrk_oom_no_incr(hp, incr) == hp > _heap_end

\* mutant: off by one, a break equal to the end of the heap is refused
sbrk_oom_ge(hp, incr) == sbrk_candidate(hp, incr) >= _heap_end

\* if (heap_ptr + incr > &_heap_end)
sbrk_oom(hp, incr) == sbrk_candidate(hp, incr) > _heap_end

\* mutant: heap_ptr is advanced before the bound check
sbrk_heap_ptr_early(hp, incr) == sbrk_candidate(sbrk_init(hp), incr)

\* the value of heap_ptr when _sbrk(incr) returns, hp being its value at entry
sbrk_heap_ptr(hp, incr) ==
    LET h == sbrk_init(hp)
    IN  IF sbrk_oom(h, incr) THEN h ELSE sbrk_candidate(h, incr)

\* mutant: the new break is returned instead of the previous one
sbrk_ret_new(hp, incr) ==
    LET h == sbrk_init(hp)
    IN  IF sbrk_oom(h, incr) THEN SBRK_FAILED ELSE sbrk_candidate(h, incr)

\* the value _sbrk(incr) returns
sbrk_ret(hp, incr) ==
    LET prev_heap_ptr == sbrk_init(hp)
    IN  IF sbrk_oom(prev_heap_ptr, incr) THEN SBRK_FAILED ELSE prev_heap_ptr

\* errno when _sbrk(incr) returns, e being its value at entry
sbrk_errno(hp, incr, e) ==
    IF sbrk_oom(sbrk_init(hp), incr) THEN "ENOMEM" ELSE e

\* the arena cursor: the address the next _sbrk call starts from
Cursor == sbrk_init(heap_ptr)

\* one complete call _sbrk(incr)
sbrk_call(incr) ==
    /\ ~halted
    /\ heap_ptr' = sbrk_heap_ptr(heap_ptr, incr)
    /\ errno' = sbrk_errno(heap_ptr, incr, errno)
    /\ ret' = sbrk_ret(heap_ptr, incr)
    /\ op' = "_sbrk"
    /\ args' = [incr |-> incr]
    /\ out' = NoOut
    /\ granted' = IF /\ granted >= 0
                     /\ incr >= 0
                     /\ granted + incr <= _heap_end - _end
                  THEN granted + incr
                  ELSE -1
    /\ UNCHANGED <<hw, halted, ctx>>

_sbrk ==
    \E incr \in Incrs :
        /\ sbrk_call(incr)
        /\ UNCHANGED regions

(***************************************************************************)
(* The other stubs.  Called(name, a, r, o): stub name was called with      *)
(* arguments a, returned r and stored o through its pointer arguments;     *)
(* the arena is not touched.                                               *)
(***************************************************************************)
Called(name, a, r, o) ==
    /\ ~halted
    /\ op' = name
    /\ args' = a
    /\ ret' = r
    /\ out' = o
    /\ UNCHANGED <<heap_ptr, halted, granted, regions, ctx>>

\* what _write(file, ptr, len) returns, buf being the len bytes at ptr
write_ret(file, buf) == -1

\* errno when _write returns
write_errno(file, e) == "EBADF"

\* the transmitter after _write: the stub has no UART code
write_tx(file, buf, tx) == tx

\* mutant: the bytes are kept in a buffer taken from the heap
write_buffers ==
    /\ ~halted
    /\ \E file \in Files, buf \in Bufs :
          /\ op' = "_write"
          /\ args' = [file |-> file, buf |-> buf, len |-> Len(buf)]
          /\ ret' = write_ret(file, buf)
          /\ out' = NoOut
          /\ errno' = write_errno(file, errno)
          /\ heap_ptr' = sbrk_heap_ptr(heap_ptr, Len(buf))
    /\ UNCHANGED <<hw, halted, granted, regions, ctx>>

_write ==
    \E file \in Files, buf \in Bufs :
        /\ Called("_write", [file |-> file, buf |-> buf, len |-> Len(buf)],
                  write_ret(file, buf), NoOut)
        /\ errno' = write_errno(file, errno)
        /\ uart_tx' = write_tx(file, buf, uart_tx)
        /\ UNCHANGED uart_rx

\* what _read(file, ptr, len) returns
read_ret(file, rx) == -1

\* errno when _read returns
read_errno(file, e) == "EBADF"

\* mutant: the receiver is read before the descriptor is looked at
read_rx_any(file, rx) == IF rx = <<>> THEN rx ELSE Tail(rx)

\* the receiver after _read: the stub has no UART code
read_rx(file, rx) == rx

\* what _read stores at ptr: nothing
read_out(file, rx) == NoOut

_read ==
    \E file \in Files, len \in 1..MaxLen :
        /\ Called("_read", [file |-> file, len |-> len],
                  read_ret(file, uart_rx), read_out(file, uart_rx))
        /\ errno' = read_errno(file, errno)
        /\ uart_rx' = read_rx(file, uart_rx)
        /\ UNCHANGED uart_tx

\* errno when _close returns: the stub assigns none
close_errno(e) == e

_close ==
    \E file \in Files :
        /\ Called("_close", [file |-> file], -1, NoOut)
        /\ errno' = close_errno(errno)
        /\ UNCHANGED hw

_lseek ==
    \E file \in Files, ptr \in {0, 1}, dir \in {0, 2} :
        /\ Called("_lseek", [file |-> file, ptr |-> ptr, dir |-> dir], 0, NoOut)
        /\ UNCHANGED <<errno, hw>>

\* st is a valid struct stat of the caller
_fstat ==
    \E file \in Files :
        /\ Called("_fstat", [file |-> file], 0, [st_mode |-> "S_IFCHR"])
        /\ UNCHANGED <<errno, hw>>

\* mutant: only the three streams are terminals
isatty_streams ==
    \E file \in Files :
        /\ Called("_isatty", [file |-> file], IF file <= 2 THEN 1 ELSE 0, NoOut)
        /\ UNCHANGED <<errno, hw>>

_isatty ==
    \E file \in Files :
        /\ Called("_isatty", [file |-> file], 1, NoOut)
        /\ UNCHANGED <<errno, hw>>

\* mutant: the loop is missing, the stub returns to its caller
exit_returns ==
    /\ ~halted
    /\ \E status \in {0, 1} :
          /\ op' = "_exit"
          /\ args' = [status |-> status]
    /\ UNCHANGED <<heap_ptr, errno, hw, halted, ret, out, granted, regions, ctx>>

\* the wfi loop is entered and never left
_exit ==
    /\ ~halted
    /\ \E status \in {0, 1} :
          /\ halted' = TRUE
          /\ op' = "_exit"
          /\ args' = [status |-> status]
    /\ UNCHANGED <<heap_ptr, errno, hw, ret, out, granted, regions, ctx>>

\* one turn of while (1) wfi
wfi ==
    /\ halted
    /\ UNCHANGED vars

\* mutant: the stub ends the program, as kill of the only process would
kill_exits ==
    /\ ~halted
    /\ \E pid \in {0, 1}, sig \in {0, 9} :
          /\ halted' = TRUE
          /\ op' = "_kill"
          /\ args' = [pid |-> pid, sig |-> sig]
    /\ UNCHANGED <<heap_ptr, errno, hw, ret, out, granted, regions, ctx>>

_kill ==
    \E pid \in {0, 1}, sig \in {0, 9} :
        /\ Called("_kill", [pid |-> pid, sig |-> sig], -1, NoOut)
        /\ errno' = "EINVAL"
        /\ UNCHANGED hw

_getpid ==
    /\ Called("_getpid", NoOut, 1, NoOut)
    /\ UNCHANGED <<errno, hw>>

(***************************************************************************)
(* _gettimeofday.  The cycle counter is an unsigned 64-bit word: a tuple   *)
(* of WordLimbs limbs of LimbBits bits, least significant first.  The      *)
(* unsigned division and remainder instructions are binary long division.  *)
(***************************************************************************)
\* unsigned long long: 4 limbs of 16 bits
WordLimbs == 4
LimbBits == 16
Limb == 2^LimbBits

\* long division by d of the w low bits of v, most significant bit first,
\* r being the remainder carried in: quotient bits (as a number) and remainder
RECURSIVE DivBits(_, _, _, _)
DivBits(v, w, d, r) ==
    IF w = 0 THEN [q |-> 0, r |-> r]
    ELSE LET top == v \div 2^(w - 1)
             r2 == 2 * r + top
             b == IF r2 >= d THEN 1 ELSE 0
             lo == DivBits(v % 2^(w - 1), w - 1, d, r2 - b * d)
         IN  [q |-> b * 2^(w - 1) + lo.q, r |-> lo.r]

\* long division by d of the limbs i..WordLimbs of the word x
RECURSIVE LongDiv(_, _, _)
LongDiv(x, d, i) ==
    IF i > WordLimbs THEN [q |-> <<>>, r |-> 0]
    ELSE LET hi == LongDiv(x, d, i + 1)
             me == DivBits(x[i], LimbBits, d, hi.r)
         IN  [q |-> <<me.q>> \o hi.q, r |-> me.r]

\* x / d on unsigned 64-bit words (a word), d < 2^30
udiv64(x, d) == LongDiv(x, d, 1).q

\* x % d on unsigned 64-bit words (a number below d), d < 2^30
umod64(x, d) == LongDiv(x, d, 1).r

\* tv->tv_sec = cycles / 1000000000ULL
tv_sec(cycles) == udiv64(cycles, 1000000000)

\* mutant: the division by 1000 is left out (nanoseconds stored)
tv_usec_nanos(cycles) == umod64(cycles, 1000000000)

\* tv->tv_usec = (cycles % 1000000000ULL) / 1000ULL
tv_usec(cycles) == umod64(cycles, 1000000000) \div 1000

\* samples of the rdcycle counter: 0, 3500000000 and 2^64 - 1
Cycles == {<<0, 0, 0, 0>>, <<49920, 53405, 0, 0>>, <<65535, 65535, 65535, 65535>>}

\* what _gettimeofday stores in *tv when the counter reads cycles
timeval(cycles) == [tv_sec |-> tv_sec(cycles), tv_usec |-> tv_usec(cycles)]

\* the stored timeval for each sampled counter reading
Timevals == [cycles \in Cycles |-> timeval(cycles)]

\* _gettimeofday with the counter reading one of DOMAIN T, T giving the
\* timeval stored; the counter is read only when tv is not NULL
gettimeofday(T) ==
    \/ /\ Called("_gettimeofday", [tv |-> FALSE], 0, NoOut)
       /\ UNCHANGED <<errno, hw>>
    \/ \E cycles \in DOMAIN T :
          /\ Called("_gettimeofday", [tv |-> TRUE, cycles |-> cycles], 0, T[cycles])
          /\ UNCHANGED <<errno, hw>>

_gettimeofday == gettimeofday(Timevals)

\* mutant: a descriptor is handed out
open_fd ==
    \E name \in Names, flags \in {0, 1} :
        /\ Called("_open", [name |-> name, flags |-> flags], 3, NoOut)
        /\ UNCHANGED <<errno, hw>>

_open ==
    \E name \in Names, flags \in {0, 1} :
        /\ Called("_open", [name |-> name, flags |-> flags], -1, NoOut)
        /\ errno' = "ENOSYS"
        /\ UNCHANGED hw

_link ==
    \E old \in Names, new \in Names :
        /\ Called("_link", [old |-> old, new |-> new], -1, NoOut)
        /\ errno' = "ENOSYS"
        /\ UNCHANGED hw

_unlink ==
    \E name \in Names :
        /\ Called("_unlink", [name |-> name], -1, NoOut)
        /\ errno' = "ENOSYS"
        /\ UNCHANGED hw

\* st is a valid struct stat of the caller
_stat ==
    \E file \in Names :
        /\ Called("_stat", [file |-> file], 0, [st_mode |-> "S_IFCHR"])
        /\ UNCHANGED <<errno, hw>>

_fork ==
    /\ Called("_fork", NoOut, -1, NoOut)
    /\ errno' = "ENOSYS"
    /\ UNCHANGED hw

_execve ==
    \E name \in Names :
        /\ Called("_execve", [name |-> name], -1, NoOut)
        /\ errno' = "ENOSYS"
        /\ UNCHANGED hw

_wait ==
    /\ Called("_wait", NoOut, -1, NoOut)
    /\ errno' = "ENOSYS"
    /\ UNCHANGED hw

\* the environment: a byte arrives at the UART receiver
uart_receive ==
    /\ Len(uart_rx) < MaxRx
    /\ \E b \in Bytes :
          /\ uart_rx' = Append(uart_rx, b)
          /\ op' = "uart_receive"
          /\ args' = [byte |-> b]
    /\ UNCHANGED <<heap_ptr, errno, uart_tx, halted, ret, out, granted, regions, ctx>>

Next ==
    \/ _sbrk
    \/ _write
    \/ _read
    \/ _close
    \/ _lseek
    \/ _fstat
    \/ _isatty
    \/ _exit
    \/ wfi
    \/ _kill
    \/ _getpid
    \/ _gettimeofday
    \/ _open
    \/ _link
    \/ _unlink
    \/ _stat
    \/ _fork
    \/ _execve
    \/ _wait
    \/ uart_receive

Spec == Init /\ [][Next]_vars


(***************************************************************************)
(* The claims.                                                             *)
(***************************************************************************)
(***************************************************************************)
(* The allocator under non-negative requests only, between calls of stubs  *)
(* that leave the arena alone; every region it grants is recorded.         *)
(***************************************************************************)
\* _sbrk(incr) with incr >= 0
sbrk_nonneg ==
    \E incr \in 0..MaxIncr :
        /\ sbrk_call(incr)
        /\ regions' = IF sbrk_ret(heap_ptr, incr) # SBRK_FAILED /\ incr > 0
                      THEN Append(regions, [base |-> sbrk_ret(heap_ptr, incr),
                                            len |-> incr])
                      ELSE regions

GrowNext ==
    \/ sbrk_nonneg
    \/ _close
    \/ _kill

SpecGrow == Init /\ [][GrowNext]_vars

(***************************************************************************)
(* _sbrk statement by statement, called from two execution contexts (the   *)
(* main program and an interrupt handler, or two harts).  Each step is one *)
(* access of heap_ptr; heap_ptr += incr is a load and a store.  With       *)
(* ctx.locking the calls are bracketed by a lock, the discipline the       *)
(* specification asks of a concurrent system; without it the steps of the  *)
(* two calls interleave freely.                                            *)
(***************************************************************************)
\* how many calls each context makes
MaxCalls == 2

Ctxs == {1, 2}

CtxReset(locking) ==
    [locking |-> locking,
     lock    |-> 0,
     pc      |-> [c \in Ctxs |-> "idle"],
     incr    |-> [c \in Ctxs |-> 0],
     prev    |-> [c \in Ctxs |-> NULL],
     tmp     |-> [c \in Ctxs |-> NULL],
     calls   |-> [c \in Ctxs |-> 0],
     grants  |-> <<>>]

\* the context goes on with the statement at line pc
Goto(c, pc) == [ctx EXCEPT !.pc[c] = pc]

\* the call returns; a granted region is recorded, the lock is released
Return(c, g) ==
    [ctx EXCEPT !.pc[c] = "idle",
                !.lock = 0,
                !.grants = IF g = NoOut THEN @ ELSE Append(@, g)]

\* a call _sbrk(incr), incr > 0, begins
sbrk_enter(c) ==
    /\ ctx.pc[c] = "idle"
    /\ ctx.calls[c] < MaxCalls
    /\ ctx.locking => ctx.lock = 0
    /\ \E incr \in 1..MaxIncr :
          ctx' = [ctx EXCEPT !.pc[c] = "L45",
                             !.incr[c] = incr,
                             !.calls[c] = @ + 1,
                             !.lock = IF ctx.locking THEN c ELSE 0]
    /\ UNCHANGED <<heap_ptr, errno>>

\* if (heap_ptr == NULL)
sbrk_L45(c) ==
    /\ ctx.pc[c] = "L45"
    /\ ctx' = Goto(c, IF heap_ptr = NULL THEN "L46" ELSE "L49")
    /\ UNCHANGED <<heap_ptr, errno>>

\* heap_ptr = &_end;
sbrk_L46(c) ==
    /\ ctx.pc[c] = "L46"
    /\ heap_ptr' = _end
    /\ ctx' = Goto(c, "L49")
    /\ UNCHANGED errno

\* prev_heap_ptr = heap_ptr;
sbrk_L49(c) ==
    /\ ctx.pc[c] = "L49"
    /\ ctx' = [Goto(c, "L52") EXCEPT !.prev[c] = heap_ptr]
    /\ UNCHANGED <<heap_ptr, errno>>

\* if (heap_ptr + incr > &_heap_end) { errno = ENOMEM; return -1; }
sbrk_L52(c) ==
    /\ ctx.pc[c] = "L52"
    /\ IF sbrk_oom(heap_ptr, ctx.incr[c])
       THEN /\ errno' = "ENOMEM"
            /\ ctx' = Return(c, NoOut)
       ELSE /\ errno' = errno
            /\ ctx' = Goto(c, "L58")
    /\ UNCHANGED heap_ptr

\* heap_ptr += incr, the load
sbrk_L58_load(c) ==
    /\ ctx.pc[c] = "L58"
    /\ ctx' = [Goto(c, "L58s") EXCEPT !.tmp[c] = heap_ptr]
    /\ UNCHANGED <<heap_ptr, errno>>

\* mutant: the sum is not stored back
sbrk_L58_no_store(c) ==
    /\ ctx.pc[c] = "L58s"
    /\ ctx' = Return(c, [base |-> ctx.prev[c], len |-> ctx.incr[c]])
    /\ UNCHANGED <<heap_ptr, errno>>

\* heap_ptr += incr, the store; return prev_heap_ptr;
sbrk_L58_store(c) ==
    /\ ctx.pc[c] = "L58s"
    /\ heap_ptr' = sbrk_candidate(ctx.tmp[c], ctx.incr[c])
    /\ ctx' = Return(c, [base |-> ctx.prev[c], len |-> ctx.incr[c]])
    /\ UNCHANGED errno

InterleaveInit ==
    /\ Reset
    /\ \E locking \in BOOLEAN : ctx = CtxReset(locking)

InterleaveNext ==
    /\ \E c \in Ctxs :
          \/ sbrk_enter(c)
          \/ sbrk_L45(c)
          \/ sbrk_L46(c)
          \/ sbrk_L49(c)
          \/ sbrk_L52(c)
          \/ sbrk_L58_load(c)
          \/ sbrk_L58_store(c)
    /\ UNCHANGED <<hw, halted, op, args, ret, out, granted, regions>>

SpecInterleave == InterleaveInit /\ [][InterleaveNext]_vars

FailingStubs == {"_open", "_link", "_unlink", "_fork", "_execve", "_wait"}

\* C1: an _sbrk(incr) call with cursor + incr > limit returns the failure
\* value, sets errno to ENOMEM and leaves the cursor unchanged; an _sbrk(0)
\* right after a failed call returns that same cursor.
C1_AllocatorBound ==
    [][ /\ (op' = "_sbrk" /\ Cursor + args'.incr > _heap_end)
            => /\ ret' = SBRK_FAILED
               /\ errno' = "ENOMEM"
               /\ Cursor' = Cursor
        /\ (op = "_sbrk" /\ ret = SBRK_FAILED /\ op' = "_sbrk" /\ args'.incr = 0)
            => /\ ret' = Cursor
               /\ Cursor' = Cursor ]_vars

\* a request for more than what is left has just failed, part of the heap in use
C1_Witness ==
    /\ op = "_sbrk"
    /\ args.incr > 0
    /\ ret = SBRK_FAILED
    /\ errno = "ENOMEM"
    /\ _end < heap_ptr
    /\ heap_ptr < _heap_end
    /\ heap_ptr + args.incr > _heap_end

\* C2: while every _sbrk call so far had incr >= 0 and the sum of the
\* increments stayed within limit - start, the cursor is start plus that sum
\* and the call just made succeeded and returned the cursor before it.
C2_AllocatorMonotonicity ==
    granted >= 0 =>
        /\ Cursor = _end + granted
        /\ op = "_sbrk" =>
              /\ ret # SBRK_FAILED
              /\ ret = _end + granted - args.incr

\* the heap filled exactly by more than one positive request
C2_Witness ==
    /\ granted = _heap_end - _end
    /\ op = "_sbrk"
    /\ args.incr > 0
    /\ ret > _end
    /\ heap_ptr = _heap_end

\* C3: the cursor never exceeds limit, whatever the signs of the increments
\* and whatever other stubs run in between.
C3_ArenaUpperBound ==
    /\ heap_ptr <= _heap_end
    /\ Cursor <= _heap_end

\* the cursor at the limit after requests of both signs and a failed one
C3_Witness ==
    /\ heap_ptr = _heap_end
    /\ granted = -1
    /\ op = "_sbrk"
    /\ ret = SBRK_FAILED

\* C4 as claimed: no _sbrk call, whatever the sign of incr, lowers the cursor.
C4_CursorNeverDecreases ==
    [][ op' = "_sbrk" => Cursor' >= Cursor ]_vars

\* C4 amended: an _sbrk call with incr >= 0 never lowers the cursor; a
\* successful call with incr < 0 moves heap_ptr down to cursor + incr.
C4_NonNegativeMonotone ==
    [][ op' = "_sbrk" =>
          IF args'.incr >= 0
          THEN Cursor' >= Cursor
          ELSE ret' # SBRK_FAILED =>
                  /\ heap_ptr' = Cursor + args'.incr
                  /\ heap_ptr' < Cursor ]_vars

\* a shrink request has just been granted
C4_Witness ==
    /\ op = "_sbrk"
    /\ args.incr < 0
    /\ ret # SBRK_FAILED
    /\ heap_ptr = ret + args.incr

\* C5: _write on stream 1 or 2 transmits the len bytes of the buffer in
\* order and returns len.
C5_WriteTotality ==
    [][ (op' = "_write" /\ args'.file \in {1, 2})
            => /\ ret' = args'.len
               /\ uart_tx' = uart_tx \o args'.buf ]_vars

C7_InputRead ==
    [][ (op' = "_read" /\ args'.file = 0 /\ uart_rx # <<>>)
            => /\ ret' = 1
               /\ out' = [buf |-> Head(uart_rx)]
               /\ uart_rx' = Tail(uart_rx) ]_vars

\* C8: _close fails, and the errno seen right after _close, _open, _link,
\* _unlink, _fork, _execve or _wait is one fixed kind per stub: the kind the
\* stub yields as the first call after reset, whatever ran before.
C8_StubDeterminism ==
    /\ op = "_close" => ret = -1 /\ errno = close_errno("0")
    /\ op \in FailingStubs => errno = "ENOSYS"

\* C9: _open, _link, _unlink, _fork, _execve and _wait return -1 with errno
\* ENOSYS, and _kill returns -1 with errno EINVAL, in every reachable state.
C9_PermanentlyUnsupported ==
    /\ op \in FailingStubs => ret = -1 /\ errno = "ENOSYS"
    /\ op = "_kill" => ret = -1 /\ errno = "EINVAL"

\* _open refused with the heap in use, a byte pending and another error before
C9_Witness ==
    /\ op = "_open"
    /\ ret = -1
    /\ errno = "ENOSYS"
    /\ heap_ptr = _heap_end
    /\ uart_rx # <<>>

\* C10: for every handle _lseek returns 0, _isatty returns 1, _fstat and
\* _stat return 0 with st_mode S_IFCHR, and _getpid returns 1.
C10_ConstantAnswers ==
    /\ op = "_lseek" => ret = 0
    /\ op = "_isatty" => ret = 1
    /\ op \in {"_fstat", "_stat"} => ret = 0 /\ out = [st_mode |-> "S_IFCHR"]
    /\ op = "_getpid" => ret = 1

\* is_terminal asked of a foreign handle after a failed call
C10_Witness ==
    /\ op = "_isatty"
    /\ args.file > 2
    /\ ret = 1
    /\ errno # "0"

(***************************************************************************)
(* The clock conversion on its own: the counter ranges over a grid of      *)
(* 64-bit words and over the words around whole seconds.                   *)
(*                                                                         *)
(* Natural numbers of any size, to state the conversion without the        *)
(* machine's division: tuples of limbs, least significant first.           *)
(***************************************************************************)
\* most whole seconds in the words sampled around second boundaries
MaxSec == 5

NatLimb(a, i) == IF i <= Len(a) THEN a[i] ELSE 0
NatMax(m, n) == IF m >= n THEN m ELSE n

\* a + b + c from limb i on, c the carry in
RECURSIVE NatAddFrom(_, _, _, _)
NatAddFrom(a, b, i, c) ==
    IF i > NatMax(Len(a), Len(b))
    THEN IF c = 0 THEN <<>> ELSE <<c>>
    ELSE LET t == NatLimb(a, i) + NatLimb(b, i) + c
         IN  <<t % Limb>> \o NatAddFrom(a, b, i + 1, t \div Limb)

NatAdd(a, b) == NatAddFrom(a, b, 1, 0)

\* 1000 * a + c from limb i on, c the carry in
RECURSIVE NatTimes1000From(_, _, _)
NatTimes1000From(a, i, c) ==
    IF i > Len(a)
    THEN IF c = 0 THEN <<>> ELSE <<c>>
    ELSE LET t == 1000 * a[i] + c
         IN  <<t % Limb>> \o NatTimes1000From(a, i + 1, t \div Limb)

NatTimes1000(a) == NatTimes1000From(a, 1, 0)

\* 1000000 * a and 1000000000 * a
TimesMega(a) == NatTimes1000(NatTimes1000(a))
TimesF(a) == NatTimes1000(TimesMega(a))

\* -1, 0 or 1 as a < b, a = b or a > b, comparing from limb i down
RECURSIVE NatCmpFrom(_, _, _)
NatCmpFrom(a, b, i) ==
    IF i = 0 THEN 0
    ELSE IF NatLimb(a, i) < NatLimb(b, i) THEN -1
    ELSE IF NatLimb(a, i) > NatLimb(b, i) THEN 1
    ELSE NatCmpFrom(a, b, i - 1)

NatCmp(a, b) == NatCmpFrom(a, b, NatMax(Len(a), Len(b)))
NatLeq(a, b) == NatCmp(a, b) <= 0
NatLess(a, b) == NatCmp(a, b) < 0
NatEq(a, b) == NatCmp(a, b) = 0

\* the number n < 2^31 as limbs
NatOf(n) == <<n % Limb, n \div Limb>>

\* a < 2^64 as a 64-bit word
WordOf(a) == [i \in 1..WordLimbs |-> NatLimb(a, i)]

\* 2^64
TwoTo64 == [i \in 1..(WordLimbs + 1) |-> IF i = WordLimbs + 1 THEN 1 ELSE 0]

\* the frequency F = 1000000000 and 3 * F + F / 2
NatF == TimesF(NatOf(1))
ThreeAndAHalfF == NatAdd(TimesF(NatOf(3)), NatOf(500000000))

\* counter readings: a grid over the limbs, and k * F + d around each second k
GridLimbs == {0, 1, 65535}
NearSecond == {0, 1, 999, 1000, 500000000, 999999999}
Cycles64 ==
    [1..WordLimbs -> GridLimbs]
      \cup {WordOf(NatAdd(TimesF(NatOf(k)), NatOf(d))) : k \in 0..MaxSec, d \in NearSecond}

Timevals64 == [cycles \in Cycles64 |-> timeval(cycles)]

ClockNext == gettimeofday(Timevals64)

SpecClock == Init /\ [][ClockNext]_vars

\* C11: with C the counter reading and F = 1000000000, _gettimeofday stores
\* tv_sec = C div F (tv_sec * F <= C < tv_sec * F + F) and
\* tv_usec = ((C mod F) * 1000000) div F, which lies in 0..999999; the product
\* (C mod F) * 1000000 is below 2^64; C = 3 * F + F / 2 gives 3 and 500000.
C11_ClockConversion ==
    (op = "_gettimeofday" /\ args.tv) =>
        LET C == args.cycles
            sF == TimesF(out.tv_sec)
            u == out.tv_usec
            \* (C mod F) * 1000000 is TimesMega(C) - TimesMega(sF)
        IN  /\ NatLeq(sF, C)
            /\ NatLess(C, NatAdd(sF, NatF))
            /\ 0 <= u
            /\ u < 1000000
            /\ NatLeq(NatAdd(TimesMega(sF), TimesF(NatOf(u))), TimesMega(C))
            /\ NatLess(TimesMega(C), NatAdd(TimesMega(sF), TimesF(NatOf(u + 1))))
            /\ NatLess(TimesMega(C), NatAdd(TimesMega(sF), TwoTo64))
            /\ NatEq(C, ThreeAndAHalfF) =>
                  /\ NatEq(out.tv_sec, NatOf(3))
                  /\ u = 500000

\* the counter read 3 * F + F / 2
C11_Witness ==
    /\ op = "_gettimeofday"
    /\ args.tv
    /\ NatEq(args.cycles, ThreeAndAHalfF)
    /\ NatEq(out.tv_sec, NatOf(3))
    /\ out.tv_usec = 500000

\* C12: a call _exit(status) does not return: it halts the core whatever the
\* status and leaves the cursor and errno as they were, and once the core is
\* halted it stays halted, no stub runs any more (only the receiver of the
\* UART can still take a byte) and the cursor, errno, the transmitter and
\* the last returned values stay as they are.
C12_TerminateNeverReturns ==
    [][ /\ (~halted /\ op' = "_exit")
            => /\ halted'
               /\ heap_ptr' = heap_ptr
               /\ errno' = errno
        /\ halted
            => /\ halted'
               /\ op' \in {op, "uart_receive"}
               /\ UNCHANGED <<heap_ptr, errno, uart_tx, ret, out>> ]_vars

\* halted by _exit(1) with the heap full and an error code left by a stub
C12_Witness ==
    /\ halted
    /\ op = "_exit"
    /\ args.status = 1
    /\ heap_ptr = _heap_end
    /\ errno = "ENOMEM"

\* C13: the allocate-then-exceed scenario, in units of a fifth of the heap
\* (a heap of 100 bytes, requests of 60, 60 and 40 bytes).  A first request
\* that fits is granted at the start of the heap; a request that does not fit
\* fails and leaves the cursor where it was; the request made right after a
\* failed one that fills the heap exactly is granted at the cursor and moves
\* the cursor to the limit.
C13_AllocateThenExceed ==
    [][ /\ (op = "reset" /\ op' = "_sbrk" /\ args'.incr <= _heap_end - _end)
            => /\ ret' = _end
               /\ heap_ptr' = _end + args'.incr
        /\ (op' = "_sbrk" /\ Cursor + args'.incr > _heap_end)
            => /\ ret' = SBRK_FAILED
               /\ heap_ptr' = Cursor
        /\ (/\ op = "_sbrk"
            /\ ret = SBRK_FAILED
            /\ op' = "_sbrk"
            /\ heap_ptr + args'.incr = _heap_end)
            => /\ ret' = heap_ptr
               /\ heap_ptr' = _heap_end ]_vars

\* 60% of the heap granted first, a request refused, then the remaining 40%
\* granted at start + 60%: the cursor is at the limit
C13_Witness ==
    /\ op = "_sbrk"
    /\ errno = "ENOMEM"
    /\ Len(regions) = 2
    /\ regions[1].base = _end
    /\ regions[1].len * 100 = 60 * (_heap_end - _end)
    /\ regions[2].base = _end + regions[1].len
    /\ regions[2].len * 100 = 40 * (_heap_end - _end)
    /\ ret = regions[2].base
    /\ heap_ptr = _heap_end

\* C14: a probe _sbrk(0) succeeds and leaves errno alone; it returns the
\* current cursor: the start of the heap when nothing was called before, the
\* cursor a successful _sbrk call just left (its base plus its increment),
\* and the unchanged cursor after a failed one; in particular a probe right
\* after a probe returns the same value.
C14_Probe ==
    [][ (op' = "_sbrk" /\ args'.incr = 0)
            => /\ ret' # SBRK_FAILED
               /\ errno' = errno
               /\ op = "reset" => ret' = _end
               /\ (op = "_sbrk" /\ ret # SBRK_FAILED) => ret' = ret + args.incr
               /\ (op = "_sbrk" /\ ret = SBRK_FAILED) => ret' = heap_ptr ]_vars

\* C15: _exit is the only fatal stub.  The call of every other stub,
\* successful or not, gives control back: the core is not halted when the
\* stub returns, whatever ran before.
C15_OnlyTerminateIsFatal ==
    [][ /\ (op' \notin {op, "_exit", "uart_receive"}) => ~halted'
        /\ (op' # "_exit" /\ ~halted) => ~halted' ]_vars

\* a failing stub has returned to its caller after a failed allocation
C15_Witness ==
    /\ ~halted
    /\ op = "_kill"
    /\ ret = -1
    /\ errno = "EINVAL"
    /\ heap_ptr = _heap_end
    /\ granted = -1

\* C17: the cursor stays within the heap, start <= cursor <= limit, whatever
\* the signs of the increments, and no successful _sbrk call returns an
\* address below the start of the heap.
C17_ArenaLowerBound ==
    /\ _end <= Cursor
    /\ Cursor <= _heap_end
    /\ (op = "_sbrk" /\ ret # SBRK_FAILED) => _end <= ret

\* C19: only _sbrk changes the arena: any step that is not a call of _sbrk
\* leaves heap_ptr as it is, so a probe _sbrk(0) made after it returns what a
\* probe made before it returns and leaves the same cursor.
C19_ArenaFrame ==
    [][ op' # "_sbrk"
            => /\ heap_ptr' = heap_ptr
               /\ sbrk_ret(heap_ptr', 0) = sbrk_ret(heap_ptr, 0)
               /\ sbrk_heap_ptr(heap_ptr', 0) = sbrk_heap_ptr(heap_ptr, 0) ]_vars

\* a stub other than _sbrk has run while part of the heap was in use
C19_Witness ==
    /\ op = "_write"
    /\ errno = "EBADF"
    /\ _end < heap_ptr
    /\ heap_ptr < _heap_end
    /\ sbrk_ret(heap_ptr, 0) = heap_ptr

\* the error kind of each stub that can fail
Kind ==
    [s \in FailingStubs |-> "ENOSYS"] @@
    [_sbrk |-> "ENOMEM", _write |-> "EBADF", _read |-> "EBADF",
     _close |-> "EBADF", _kill |-> "EINVAL"]

\* C20: errno is written only on failure: a call that succeeds leaves errno
\* as it was, and a call that reports failure sets errno to the kind of its
\* stub.
C20_ErrnoOnlyOnFailure ==
    [][ op' \notin {op, "_exit", "uart_receive"}
            => LET failed == IF op' = "_sbrk" THEN ret' = SBRK_FAILED
                             ELSE ret' = -1
               IN  /\ ~failed => errno' = errno
                   /\ failed => errno' = Kind[op'] ]_vars

\* C18: over any sequence of _sbrk calls with incr >= 0, failed ones and
\* probes included, the regions [base, base + incr) granted by the
\* successful calls with incr > 0 lie within [start, limit), are pairwise
\* disjoint and are contiguous in call order, the first one at start.
C18_GrantedRegions ==
    /\ \A i \in 1..Len(regions) :
          /\ regions[i].len > 0
          /\ _end <= regions[i].base
          /\ regions[i].base + regions[i].len <= _heap_end
          /\ regions[i].base = IF i = 1 THEN _end
                               ELSE regions[i - 1].base + regions[i - 1].len
    /\ \A i, j \in 1..Len(regions) :
          i < j => \/ regions[i].base + regions[i].len <= regions[j].base
                   \/ regions[j].base + regions[j].len <= regions[i].base

\* three regions fill the heap; a request was refused and the last call is a
\* probe
C18_Witness ==
    /\ Len(regions) = 3
    /\ regions[3].base + regions[3].len = _heap_end
    /\ errno = "ENOMEM"
    /\ op = "_sbrk"
    /\ args.incr = 0
    /\ ret = _heap_end

\* the sum of the lengths of the granted regions g[1..n]
RECURSIVE SumLen(_, _)
SumLen(g, n) == IF n = 0 THEN 0 ELSE SumLen(g, n - 1) + g[n].len

\* no two granted regions start at the same address
DistinctBases ==
    \A i, j \in 1..Len(ctx.grants) :
        i # j => ctx.grants[i].base # ctx.grants[j].base

\* between calls the cursor is start plus the sum of the granted increments
CursorIsSum ==
    (\A c \in Ctxs : ctx.pc[c] = "idle")
        => Cursor = _end + SumLen(ctx.grants, Len(ctx.grants))

\* C16: when the calls of _sbrk are bracketed by a lock, so that each runs
\* as one piece, no two successful calls with incr > 0 return the same base
\* and between calls the cursor is start plus the sum of the granted
\* increments.  (Without the lock the steps interleave and a state breaking
\* both is reached: the witness.)
C16_AtomicGrowIsSafe ==
    ctx.locking => (DistinctBases /\ CursorIsSum)

\* no lock: two calls have returned the same base and the cursor has lost
\* one of the increments
C16_Witness ==
    /\ ~ctx.locking
    /\ \A c \in Ctxs : ctx.pc[c] = "idle"
    /\ ~DistinctBases
    /\ Cursor # _end + SumLen(ctx.grants, Len(ctx.grants))
    /\ errno = "0"

=============================================================================
